---- MODULE Spec2Model ----
(***************************************************************************)
(* Model of hw5/pipeline/predict.py: the Trainer and Tester wrappers.      *)
(*                                                                         *)
(* Python values are encoded as follows.                                   *)
(*   None / optional value : <<>> for None, <<v>> for the value v          *)
(*   list, tuple           : a sequence; a list returned to the caller is  *)
(*                           wrapped as [cls |-> "list", items |-> seq] so *)
(*                           that it can be told from a single estimator   *)
(*   dict                  : a sequence of [k |-> key, v |-> value] in     *)
(*                           insertion order                               *)
(*   DataFrame             : [columns |-> seq of names, data |-> rows]     *)
(*   estimator             : [cls, params, steps, fitted, fit_X, fit_y]    *)
(* The wrapped library is not reimplemented: the output of a library       *)
(* scoring call is the vector of uninterpreted cells                       *)
(* [fn, col, model, x], one per row of the matrix it was given, and fit    *)
(* records the data it was given.  Library calls are taken to succeed on   *)
(* well-formed input; the errors that remain are the ones the wrapper      *)
(* code itself can run into (KeyError, IndexError, TypeError,              *)
(* AttributeError, ValueError and the explicit Exception of _test).        *)
(***************************************************************************)
EXTENDS Integers, Sequences, FiniteSets

VARIABLES trainer, tester, defaults, held, last

vars == <<trainer, tester, defaults, held, last>>

\* Largest number of datasets handed to a Trainer or a Tester.
MaxDatasets == 2

None == <<>>

Some(v) == <<v>>

NoValue == [cls |-> "NoValue"]

PyList(items) == [cls |-> "list", items |-> items]

Range(s) == {s[i] : i \in 1..Len(s)}

\* A local variable: e is evaluated once and F is applied to its value.
With(e, F(_)) == CHOOSE out \in {F(x) : x \in {e}} : TRUE

Rot(pool, start, len) ==
  [i \in 1..len |-> pool[((start + i - 2) % Len(pool)) + 1]]

-----------------------------------------------------------------------------
(* pandas *)

IndexOf(columns, col) ==
  IF \E i \in 1..Len(columns) : columns[i] = col
  THEN CHOOSE i \in 1..Len(columns) :
         columns[i] = col /\ \A j \in 1..(i - 1) : columns[j] # col
  ELSE 0

RECURSIVE Without(_, _, _)
Without(columns, row, col) ==
  IF columns = <<>> THEN <<>>
  ELSE IF Head(columns) = col
       THEN Without(Tail(columns), Tail(row), col)
       ELSE <<Head(row)>> \o Without(Tail(columns), Tail(row), col)

\* df.drop(columns=[col]): a new frame without the column; df itself is
\* left as it was (inplace defaults to False).
DataFrame_drop_inplace(df, col) ==
  IF IndexOf(df.columns, col) = 0
  THEN [raised |-> "KeyError", ret |-> NoValue, self |-> df]
  ELSE LET dropped ==
             [columns |-> Without(df.columns, df.columns, col),
              data    |-> [r \in 1..Len(df.data) |->
                             Without(df.columns, df.data[r], col)]]
       IN [raised |-> "none", ret |-> dropped, self |-> dropped]

DataFrame_drop_wrong(df, col) ==
  IF IndexOf(df.columns, col) = 0
  THEN [raised |-> "KeyError", ret |-> NoValue, self |-> df]
  ELSE [raised |-> "none",
        ret    |-> [columns |-> Without(df.columns, df.columns, df.columns[1]),
                    data    |-> [r \in 1..Len(df.data) |->
                                   Without(df.columns, df.data[r],
                                           df.columns[1])]],
        self   |-> df]

DataFrame_drop(df, col) ==
  IF IndexOf(df.columns, col) = 0
  THEN [raised |-> "KeyError", ret |-> NoValue, self |-> df]
  ELSE [raised |-> "none",
        ret    |-> [columns |-> Without(df.columns, df.columns, col),
                    data    |-> [r \in 1..Len(df.data) |->
                                   Without(df.columns, df.data[r], col)]],
        self   |-> df]

\* df[col].values
DataFrame_getitem(df, col) ==
  IF IndexOf(df.columns, col) = 0
  THEN [raised |-> "KeyError", ret |-> NoValue]
  ELSE [raised |-> "none",
        ret    |-> [r \in 1..Len(df.data) |->
                      df.data[r][IndexOf(df.columns, col)]]]

\* pd.DataFrame({name: array, ...}, dtype=float): one row per array entry;
\* arrays of different lengths are rejected.  The cast to float changes no
\* value of the model (labels are 0.0/1.0, scores stay scores).
DataFrame_from_dict(names, arrays) ==
  IF \E c \in 1..Len(arrays) : Len(arrays[c]) # Len(arrays[1])
  THEN [raised |-> "ValueError", ret |-> NoValue]
  ELSE [raised |-> "none",
        ret    |-> [columns |-> names,
                    data    |-> [r \in 1..Len(arrays[1]) |->
                                   [c \in 1..Len(names) |-> arrays[c][r]]]]]

-----------------------------------------------------------------------------
(* estimators of the wrapped library *)

Estimator(cls, params) ==
  [cls |-> cls, params |-> params, steps |-> <<>>,
   fitted |-> FALSE, fit_X |-> <<>>, fit_y |-> <<>>]

Pipeline(steps) ==
  [cls |-> "Pipeline", params |-> [memory |-> None], steps |-> steps,
   fitted |-> FALSE, fit_X |-> <<>>, fit_y |-> <<>>]

\* model.fit(X, y)
Fit(model, X, y) ==
  [model EXCEPT !.fitted = TRUE, !.fit_X = X, !.fit_y = y]

FitCall(split, model, X, y) ==
  [fn |-> "fit", split |-> split, model |-> model, X |-> X, y |-> y]

-----------------------------------------------------------------------------
(* class Trainer *)

\* One step of the generator _training_data, for one dataset.
_training_data(df, label_colname) ==
  With(DataFrame_drop(df, label_colname), LAMBDA d :
    IF d.raised # "none"
    THEN [raised |-> d.raised, X |-> <<>>, y |-> <<>>, df |-> d.self]
    ELSE With(DataFrame_getitem(d.self, label_colname), LAMBDA g :
      IF g.raised # "none"
      THEN [raised |-> g.raised, X |-> <<>>, y |-> <<>>, df |-> d.self]
      ELSE [raised |-> "none", X |-> d.ret.data, y |-> g.ret,
            df |-> d.self]))

\* The loop shared by the eight training methods: for each (X, y) of
\* _training_data, build the estimator, fit it, append it.
RECURSIVE TrainLoop(_, _, _, _)
TrainLoop(self, estimator, i, acc) ==
  IF i > Len(acc.dfs)
  THEN [raised |-> "none", models |-> acc.models, calls |-> acc.calls,
        dfs |-> acc.dfs]
  ELSE With(_training_data(acc.dfs[i], self.label_colname), LAMBDA item :
    IF item.raised # "none"
    THEN [raised |-> item.raised, models |-> acc.models,
          calls |-> acc.calls, dfs |-> [acc.dfs EXCEPT ![i] = item.df]]
    ELSE With([models |-> Append(acc.models,
                                 Fit(estimator, item.X, item.y)),
               calls  |-> Append(acc.calls,
                                 FitCall(i, estimator, item.X, item.y)),
               dfs    |-> [acc.dfs EXCEPT ![i] = item.df]],
              LAMBDA acc1 : TrainLoop(self, estimator, i + 1, acc1)))

\* return models if len(models) > 1 else models[0]
TrainReturn_always_list(loop) ==
  IF loop.raised # "none"
  THEN [raised |-> loop.raised, value |-> NoValue, calls |-> loop.calls,
        dfs |-> loop.dfs]
  ELSE [raised |-> "none", value |-> PyList(loop.models),
        calls |-> loop.calls, dfs |-> loop.dfs]

TrainReturn(loop) ==
  IF loop.raised # "none"
  THEN [raised |-> loop.raised, value |-> NoValue, calls |-> loop.calls,
        dfs |-> loop.dfs]
  ELSE IF Len(loop.models) > 1
  THEN [raised |-> "none", value |-> PyList(loop.models),
        calls |-> loop.calls, dfs |-> loop.dfs]
  ELSE IF Len(loop.models) = 0
  THEN [raised |-> "IndexError", value |-> NoValue, calls |-> loop.calls,
        dfs |-> loop.dfs]
  ELSE [raised |-> "none", value |-> loop.models[1], calls |-> loop.calls,
        dfs |-> loop.dfs]

Train(self, estimator) ==
  With(TrainLoop(self, estimator, 1,
                 [models |-> <<>>, calls |-> <<>>, dfs |-> self.dfs]),
       LAMBDA loop : TrainReturn(loop))

dummy(self) ==
  Train(self, Estimator("DummyClassifier", [random_state |-> self.seed]))

logistic_regression(self, c) ==
  Train(self, Estimator("LogisticRegression",
                        [solver |-> "liblinear", C |-> c,
                         random_state |-> self.seed]))

decision_tree(self, max_depth) ==
  Train(self, Estimator("DecisionTreeClassifier",
                        [max_depth |-> max_depth,
                         random_state |-> self.seed]))

k_nearest(self, k) ==
  Train(self, Estimator("KNeighborsClassifier", [n_neighbors |-> k]))

linear_svm(self, c) ==
  Train(self, Pipeline(<<[name |-> "scale",
                          est  |-> Estimator("StandardScaler",
                                             [copy |-> TRUE])],
                         [name |-> "svm",
                          est  |-> Estimator("LinearSVC",
                                     [C |-> c, dual |-> FALSE,
                                      random_state |-> self.seed])]>>))

forest(self, n_trees) ==
  Train(self, Estimator("RandomForestClassifier",
                        [n_estimators |-> n_trees,
                         random_state |-> self.seed]))

bagging(self, n_estimators) ==
  Train(self, Estimator("BaggingClassifier",
                        [n_estimators |-> n_estimators,
                         random_state |-> self.seed]))

boosting(self, n_estimators) ==
  Train(self, Estimator("AdaBoostClassifier",
                        [n_estimators |-> n_estimators,
                         random_state |-> self.seed]))

(* Python dict helpers *)

HasKey(d, key) == \E i \in 1..Len(d) : d[i].k = key

DictGet(d, key) == d[CHOOSE i \in 1..Len(d) : d[i].k = key].v

DictSet(d, key, value) ==
  IF HasKey(d, key)
  THEN [i \in 1..Len(d) |-> IF d[i].k = key THEN [k |-> key, v |-> value]
                            ELSE d[i]]
  ELSE Append(d, [k |-> key, v |-> value])

Keys(d) == [i \in 1..Len(d) |-> d[i].k]

\* keyword argument of a call func(**params), or the method's default
Kw(params, key, default) ==
  IF HasKey(params, key) THEN DictGet(params, key) ELSE default

\* The methods dictionary of train_all, in insertion order.
methods ==
  <<"dummy", "logistic_regression", "decision_tree", "k_nearest",
    "linear_svm", "forest", "bagging", "boosting">>

\* The keyword each method accepts (dummy accepts none).
Keyword(name) ==
  CASE name = "dummy"               -> None
    [] name = "logistic_regression" -> Some("c")
    [] name = "decision_tree"       -> Some("max_depth")
    [] name = "k_nearest"           -> Some("k")
    [] name = "linear_svm"          -> Some("c")
    [] name = "forest"              -> Some("n_trees")
    [] name = "bagging"             -> Some("n_estimators")
    [] name = "boosting"            -> Some("n_estimators")

\* func(**params) for the bound method of the given name
CallMethod(self, name, params) ==
  IF \E i \in 1..Len(params) : Some(params[i].k) # Keyword(name)
  THEN [raised |-> "TypeError", value |-> NoValue, calls |-> <<>>,
        dfs |-> self.dfs]
  ELSE CASE name = "dummy" -> dummy(self)
         [] name = "logistic_regression" ->
              logistic_regression(self, Kw(params, "c", 1))
         [] name = "decision_tree" ->
              decision_tree(self, Kw(params, "max_depth", None))
         [] name = "k_nearest" -> k_nearest(self, Kw(params, "k", 5))
         [] name = "linear_svm" -> linear_svm(self, Kw(params, "c", 1))
         [] name = "forest" -> forest(self, Kw(params, "n_trees", 10))
         [] name = "bagging" ->
              bagging(self, Kw(params, "n_estimators", 10))
         [] name = "boosting" ->
              boosting(self, Kw(params, "n_estimators", 10))

\* if name in exclude: next
\* `next` only names a builtin; the statement has no effect and the loop
\* body goes on, so no iteration is ever skipped.
Skipped(name, exclude) == (name \in Range(exclude)) /\ FALSE

\* params = parameters.get(name) or {}
\* The dictionary itself is only read.
ParamsFor(parameters, name) ==
  IF HasKey(parameters, name) /\ DictGet(parameters, name) # <<>>
  THEN [params |-> DictGet(parameters, name), parameters |-> parameters]
  ELSE [params |-> <<>>, parameters |-> parameters]

\* One iteration of the loop of train_all, for the method methods[i].
TrainAllStep(self, i, acc) ==
  With(ParamsFor(acc.parameters, methods[i]), LAMBDA p :
    With([self EXCEPT !.dfs = acc.dfs], LAMBDA self1 :
      With(CallMethod(self1, methods[i], p.params), LAMBDA r :
        [raised     |-> r.raised,
         models     |-> IF r.raised = "none"
                        THEN DictSet(acc.models, methods[i], r.value)
                        ELSE acc.models,
         calls      |-> Append(acc.calls,
                               [fn |-> "method", name |-> methods[i],
                                params |-> p.params])
                        \o r.calls,
         dfs        |-> r.dfs,
         parameters |-> p.parameters,
         exclude    |-> acc.exclude])))

RECURSIVE TrainAllLoop(_, _, _)
TrainAllLoop(self, i, acc) ==
  IF i > Len(methods)
  THEN [raised |-> "none", value |-> acc.models, calls |-> acc.calls,
        dfs |-> acc.dfs, parameters |-> acc.parameters,
        exclude |-> acc.exclude]
  ELSE IF Skipped(methods[i], acc.exclude)
  THEN TrainAllLoop(self, i + 1, acc)
  ELSE With(TrainAllStep(self, i, acc), LAMBDA acc1 :
    IF acc1.raised # "none"
    THEN [raised |-> acc1.raised, value |-> NoValue, calls |-> acc1.calls,
          dfs |-> acc1.dfs, parameters |-> acc1.parameters,
          exclude |-> acc1.exclude]
    ELSE TrainAllLoop(self, i + 1, acc1))

train_all(self, parameters, exclude) ==
  With([raised |-> "none", models |-> <<>>, calls |-> <<>>,
        dfs |-> self.dfs, parameters |-> parameters, exclude |-> exclude],
       LAMBDA acc : TrainAllLoop(self, 1, acc))

-----------------------------------------------------------------------------
(* results (pipeline/result.py) *)

\* PredictionResult(df)
PredictionResult(df) == [cls |-> "PredictionResult", df |-> df]

\* PredictionResult.with_threshold(threshold): a new result whose predicted
\* class is recomputed from the score and the threshold.
with_threshold(result, threshold) ==
  [cls |-> "PredictionResult",
   df  |-> [result.df EXCEPT !.data =
              [r \in 1..Len(result.df.data) |->
                 <<result.df.data[r][1], result.df.data[r][2],
                   [fn |-> "threshold", t |-> threshold,
                    score |-> result.df.data[r][2]]>>]]]

\* PredictionResult.with_thresholds(thresholds): one result per threshold
with_thresholds(result, thresholds) ==
  [i \in 1..Len(thresholds) |-> with_threshold(result, thresholds[i])]

\* ResultCollection()
ResultCollection ==
  [cls |-> "ResultCollection", stack |-> <<>>, index |-> None,
   joined |-> <<>>]

\* ResultCollection.from_stack(results, index=None)
from_stack(results, index) ==
  [cls |-> "ResultCollection", stack |-> results, index |-> index,
   joined |-> <<>>]

\* collection.join(name, other)
join(collection, name, other) ==
  [collection EXCEPT !.joined = Append(@, [k |-> name, v |-> other])]

-----------------------------------------------------------------------------
(* scoring calls of the wrapped library *)

\* model.decision_function(X) and model.predict(X): one entry per row of X
LibVector(fn, model, X) ==
  [r \in 1..Len(X) |-> [fn |-> fn, col |-> 0, model |-> model, x |-> X[r]]]

\* model.predict_proba(X): one row per row of X, one column per class
predict_proba(model, X) ==
  [r \in 1..Len(X) |->
     [c \in 1..2 |-> [fn |-> "predict_proba", col |-> c - 1,
                      model |-> model, x |-> X[r]]]]

\* matrix[:, j]
Column(matrix, j) == [r \in 1..Len(matrix) |-> matrix[r][j + 1]]

LibCall(fn, split, model, X) ==
  [fn |-> fn, split |-> split, model |-> model, X |-> X]

-----------------------------------------------------------------------------
(* class Tester *)

\* One step of the generator _test_data, for one dataset.
_test_data(df, label_colname) ==
  With(DataFrame_drop(df, label_colname), LAMBDA d :
    IF d.raised # "none"
    THEN [raised |-> d.raised, X |-> <<>>, y_actual |-> <<>>, df |-> d.self]
    ELSE With(DataFrame_getitem(d.self, label_colname), LAMBDA g :
      IF g.raised # "none"
      THEN [raised |-> g.raised, X |-> <<>>, y_actual |-> <<>>,
            df |-> d.self]
      ELSE [raised |-> "none", X |-> d.ret.data, y_actual |-> g.ret,
            df |-> d.self]))

\* model.named_steps.svm: the step named 'svm', AttributeError without one
named_steps_svm(model) ==
  IF \E i \in 1..Len(model.steps) : model.steps[i].name = "svm"
  THEN [raised |-> "none",
        ret |-> model.steps[CHOOSE i \in 1..Len(model.steps) :
                              /\ model.steps[i].name = "svm"
                              /\ \A j \in (i + 1)..Len(model.steps) :
                                   model.steps[j].name # "svm"].est]
  ELSE [raised |-> "AttributeError", ret |-> NoValue]

\* The branch of _test that selects the scoring function.
Score(split, model, X) ==
  IF model.cls = "Pipeline" /\ named_steps_svm(model).raised # "none"
  THEN [raised |-> "AttributeError", y_score |-> <<>>, calls |-> <<>>]
  ELSE IF model.cls = "Pipeline"
          /\ named_steps_svm(model).ret.cls = "LinearSVC"
  THEN [raised |-> "none",
        y_score |-> LibVector("decision_function", model, X),
        calls |-> <<LibCall("decision_function", split, model, X)>>]
  ELSE [raised |-> "none", y_score |-> Column(predict_proba(model, X), 1),
        calls |-> <<LibCall("predict_proba", split, model, X)>>]

\* pd.DataFrame({'actual': ..., 'score': ..., 'predict': ...}, dtype=float)
ResultsFrame_no_predict(y_actual, y_score, y_predict) ==
  DataFrame_from_dict(<<"actual", "score">>, <<y_actual, y_score>>)

ResultsFrame(y_actual, y_score, y_predict) ==
  DataFrame_from_dict(<<"actual", "score", "predict">>,
                      <<y_actual, y_score, y_predict>>)

\* if len(models) != len(self.dfs): raise Exception(...)
CountMismatch_fewer(models, dfs) == Len(models) < Len(dfs)

CountMismatch(models, dfs) == Len(models) # Len(dfs)

\* zip(self._test_data(), models): the model paired with dataset i
Paired_reversed(models, i) == models[Len(models) + 1 - i]

Paired(models, i) == models[i]

\* The body of the loop of _test for dataset i: score, predict, build the
\* result table.
TestStep(i, model, item, acc) ==
  With(Score(i, model, item.X), LAMBDA s :
    IF s.raised # "none"
    THEN [raised |-> s.raised, results |-> acc.results, calls |-> acc.calls,
          dfs |-> [acc.dfs EXCEPT ![i] = item.df]]
    ELSE With(ResultsFrame(item.y_actual, s.y_score,
                           LibVector("predict", model, item.X)),
              LAMBDA f :
      IF f.raised # "none"
      THEN [raised |-> f.raised, results |-> acc.results,
            calls |-> acc.calls \o s.calls
                        \o <<LibCall("predict", i, model, item.X)>>,
            dfs |-> [acc.dfs EXCEPT ![i] = item.df]]
      ELSE [raised |-> "none",
            results |-> Append(acc.results, PredictionResult(f.ret)),
            calls |-> acc.calls \o s.calls
                        \o <<LibCall("predict", i, model, item.X),
                             [fn |-> "DataFrame", split |-> i,
                              table |-> f.ret]>>,
            dfs |-> [acc.dfs EXCEPT ![i] = item.df]]))

RECURSIVE TestLoop(_, _, _, _)
TestLoop(self, models, i, acc) ==
  IF i > Len(acc.dfs)
  THEN acc
  ELSE With(_test_data(acc.dfs[i], self.label_colname), LAMBDA item :
    IF item.raised # "none"
    THEN [raised |-> item.raised, results |-> acc.results,
          calls |-> acc.calls, dfs |-> [acc.dfs EXCEPT ![i] = item.df]]
    ELSE IF i > Len(models)
    THEN [acc EXCEPT !.dfs = [acc.dfs EXCEPT ![i] = item.df]]
    ELSE With(Paired(models, i), LAMBDA model :
      With(TestStep(i, model, item, acc), LAMBDA acc1 :
        IF acc1.raised # "none" THEN acc1
        ELSE TestLoop(self, models, i + 1, acc1))))

\* if threshold: (None and 0 are both false)
Truthy(threshold) == threshold # None /\ threshold # Some(0)

\* if threshold: results = [r.with_threshold(threshold) for r in results]
Thresholded(loop, threshold) ==
  IF Truthy(threshold)
  THEN [raised |-> "none",
        value |-> [i \in 1..Len(loop.results) |->
                     with_threshold(loop.results[i], threshold[1])],
        calls |-> loop.calls \o
                  [i \in 1..Len(loop.results) |->
                     [fn |-> "with_threshold", split |-> i,
                      threshold |-> threshold[1]]],
        dfs |-> loop.dfs]
  ELSE [raised |-> "none", value |-> loop.results, calls |-> loop.calls,
        dfs |-> loop.dfs]

_test(self, models, threshold) ==
  IF CountMismatch(models, self.dfs)
  THEN [raised |-> "Exception", value |-> NoValue,
        calls |-> <<[fn |-> "_test", nmodels |-> Len(models),
                     threshold |-> threshold]>>,
        dfs |-> self.dfs]
  ELSE With([raised |-> "none", results |-> <<>>,
             calls |-> <<[fn |-> "_test", nmodels |-> Len(models),
                          threshold |-> threshold]>>,
             dfs |-> self.dfs], LAMBDA acc :
    With(TestLoop(self, models, 1, acc), LAMBDA loop :
      IF loop.raised # "none"
      THEN [raised |-> loop.raised, value |-> NoValue,
            calls |-> loop.calls, dfs |-> loop.dfs]
      ELSE Thresholded(loop, threshold)))

\* Tester.test(*models, threshold=None): the threshold is accepted and
\* not passed on to _test.
test(self, models, threshold) ==
  With(_test(self, models, None), LAMBDA r :
    IF r.raised # "none" THEN r
    ELSE IF Len(r.value) > 1
    THEN [r EXCEPT !.value = from_stack(r.value, None)]
    ELSE IF Len(r.value) = 0
    THEN [r EXCEPT !.raised = "IndexError", !.value = NoValue]
    ELSE [r EXCEPT !.value = r.value[1]])

\* One iteration of the loop of evaluate, for entry i of model_dict.
EvaluateStep(self, model_dict, thresholds, i, acc) ==
  With([self EXCEPT !.dfs = acc.dfs], LAMBDA self1 :
    With(_test(self1, <<model_dict[i].v>>, None), LAMBDA r :
      IF r.raised # "none"
      THEN [raised |-> r.raised, collection |-> acc.collection,
            calls |-> acc.calls \o r.calls, dfs |-> r.dfs]
      ELSE IF Len(r.value) = 0
      THEN [raised |-> "IndexError", collection |-> acc.collection,
            calls |-> acc.calls \o r.calls, dfs |-> r.dfs]
      ELSE IF thresholds # None /\ thresholds[1] # <<>>
      THEN [raised |-> "none",
            collection |->
              join(acc.collection, model_dict[i].k,
                   from_stack(with_thresholds(r.value[1], thresholds[1]),
                              thresholds)),
            calls |-> acc.calls \o r.calls, dfs |-> r.dfs]
      ELSE [raised |-> "none",
            collection |-> join(acc.collection, model_dict[i].k,
                                r.value[1]),
            calls |-> acc.calls \o r.calls, dfs |-> r.dfs]))

RECURSIVE EvaluateLoop(_, _, _, _, _)
EvaluateLoop(self, model_dict, thresholds, i, acc) ==
  IF i > Len(model_dict)
  THEN [raised |-> "none", value |-> acc.collection, calls |-> acc.calls,
        dfs |-> acc.dfs]
  ELSE With(EvaluateStep(self, model_dict, thresholds, i, acc),
            LAMBDA acc1 :
    IF acc1.raised # "none"
    THEN [raised |-> acc1.raised, value |-> NoValue, calls |-> acc1.calls,
          dfs |-> acc1.dfs]
    ELSE EvaluateLoop(self, model_dict, thresholds, i + 1, acc1))

\* Tester.evaluate(model_dict, thresholds=None)
evaluate(self, model_dict, thresholds) ==
  With([raised |-> "none", collection |-> ResultCollection,
        calls |-> <<>>, dfs |-> self.dfs],
       LAMBDA acc : EvaluateLoop(self, model_dict, thresholds, 1, acc))

\* *models in the call self._test(*models, ...): a list is unpacked into
\* its items; an estimator that is not iterable makes the call fail with
\* TypeError before _test is entered.  (The classes listed have neither
\* __iter__ nor __getitem__; ensembles and pipelines are only supplied
\* inside lists here.)
Unpack(models) ==
  CASE models.cls = "list" -> [raised |-> "none", items |-> models.items]
    [] models.cls \in {"DummyClassifier", "LogisticRegression",
                       "DecisionTreeClassifier", "KNeighborsClassifier"} ->
         [raised |-> "TypeError", items |-> <<>>]

\* One iteration of the loop of evaluate_splits, for entry i of model_dict.
EvaluateSplitsStep(self, model_dict, threshold, i, acc) ==
  With(Unpack(model_dict[i].v), LAMBDA u :
    IF u.raised # "none"
    THEN [raised |-> u.raised, collection |-> acc.collection,
          calls |-> acc.calls, dfs |-> acc.dfs]
    ELSE With([self EXCEPT !.dfs = acc.dfs], LAMBDA self1 :
      With(_test(self1, u.items, threshold), LAMBDA r :
        IF r.raised # "none"
        THEN [raised |-> r.raised, collection |-> acc.collection,
              calls |-> acc.calls \o r.calls, dfs |-> r.dfs]
        ELSE [raised |-> "none",
              collection |-> join(acc.collection, model_dict[i].k,
                                  from_stack(r.value, None)),
              calls |-> acc.calls \o r.calls, dfs |-> r.dfs])))

RECURSIVE EvaluateSplitsLoop(_, _, _, _, _)
EvaluateSplitsLoop(self, model_dict, threshold, i, acc) ==
  IF i > Len(model_dict)
  THEN [raised |-> "none", value |-> acc.collection, calls |-> acc.calls,
        dfs |-> acc.dfs]
  ELSE With(EvaluateSplitsStep(self, model_dict, threshold, i, acc),
            LAMBDA acc1 :
    IF acc1.raised # "none"
    THEN [raised |-> acc1.raised, value |-> NoValue, calls |-> acc1.calls,
          dfs |-> acc1.dfs]
    ELSE EvaluateSplitsLoop(self, model_dict, threshold, i + 1, acc1))

\* Tester.evaluate_splits(model_dict, threshold=None)
evaluate_splits(self, model_dict, threshold) ==
  With([raised |-> "none", collection |-> ResultCollection,
        calls |-> <<>>, dfs |-> self.dfs],
       LAMBDA acc : EvaluateSplitsLoop(self, model_dict, threshold, 1, acc))

-----------------------------------------------------------------------------
(* inputs *)

\* Two datasets with the label in different positions and with different
\* numbers of rows; DF2 has no column named "label".
DF1 ==
  [columns |-> <<"x1", "target", "label">>,
   data    |-> << <<10, 1, 0>>, <<11, 0, 1>> >>]

DF2 ==
  [columns |-> <<"target", "x1">>,
   data    |-> << <<0, 20>> >>]

DatasetPool == <<DF1, DF2>>

DatasetSeqs ==
  {Rot(DatasetPool, s, n) : s \in 1..Len(DatasetPool), n \in 0..MaxDatasets}

\* The keyword arguments the Trainer is constructed with; the Tester of the
\* same caller is given the same label column.
TrainerKwargs ==
  {[label_colname |-> "target", seed |-> Some(0)],
   [label_colname |-> "label", seed |-> None]}

\* Thresholds in tenths.
ThresholdInputs == {None, Some(0), Some(5)}

TestThresholds == {None, Some(5)}

ThresholdsInputs == {None, Some(<<3, 7>>)}

\* Models fitted elsewhere and supplied to the Tester by the caller: a plain
\* classifier, the wrapped linear SVM, a pipeline whose 'svm' step is not a
\* LinearSVC, and a pipeline without a step named 'svm'.
Scale == [name |-> "scale", est |-> Estimator("StandardScaler", [copy |-> TRUE])]

SuppliedModels ==
  LET X0 == << <<0>>, <<1>> >>
      y0 == <<0, 1>>
  IN << Fit(Estimator("LogisticRegression",
                      [solver |-> "liblinear", C |-> 1,
                       random_state |-> None]), X0, y0),
        Fit(Pipeline(<<Scale,
                       [name |-> "svm",
                        est |-> Estimator("LinearSVC",
                                  [C |-> 1, dual |-> FALSE,
                                   random_state |-> None])]>>), X0, y0),
        Fit(Pipeline(<<Scale,
                       [name |-> "svm",
                        est |-> Estimator("SVC", [probability |-> TRUE])]>>),
            X0, y0),
        Fit(Pipeline(<<Scale,
                       [name |-> "clf",
                        est |-> Estimator("LogisticRegression",
                                  [solver |-> "liblinear", C |-> 1,
                                   random_state |-> None])]>>), X0, y0) >>

ModelTuples ==
  {Rot(SuppliedModels, s, m) : s \in {1, 3}, m \in 0..(MaxDatasets + 1)}

ParameterInputs ==
  << <<[k |-> "logistic_regression", v |-> <<[k |-> "c", v |-> 2]>>]>> >>

ExcludeInputs == << <<"dummy", "forest">> >>

EvaluateDicts ==
  << <<[k |-> "lr", v |-> SuppliedModels[1]],
       [k |-> "svm", v |-> SuppliedModels[2]]>> >>

EvaluateSplitsDicts ==
  {<<[k |-> "a", v |-> PyList(Rot(SuppliedModels, 1, m))]>> :
     m \in 0..(MaxDatasets + 1)}
  \cup
  {<<[k |-> "a", v |-> PyList(Rot(SuppliedModels, 1, m))],
     [k |-> "b", v |-> PyList(Rot(SuppliedModels, 3, m - 1))]>> :
     m \in 2..(MaxDatasets + 1)}

-----------------------------------------------------------------------------
(* state machine *)

Init ==
  /\ \E dfs \in DatasetSeqs, kw \in TrainerKwargs :
       trainer = [dfs |-> dfs, label_colname |-> kw.label_colname,
                  seed |-> kw.seed]
  /\ \E dfs \in DatasetSeqs :
       tester = [dfs |-> dfs, label_colname |-> trainer.label_colname]
  /\ defaults = [parameters |-> <<>>, exclude |-> <<>>]
  /\ held = None
  /\ last = [op |-> "__init__", args |-> [none |-> TRUE],
             raised |-> "none", value |-> NoValue, calls |-> <<>>]

Completed(op, args, r) ==
  [op |-> op, args |-> args, raised |-> r.raised, value |-> r.value,
   calls |-> r.calls]

CallDummy ==
  \E r \in {dummy(trainer)} :
     /\ last' = Completed("dummy", [none |-> TRUE], r)
     /\ trainer' = [trainer EXCEPT !.dfs = r.dfs]
     /\ UNCHANGED <<tester, defaults, held>>

CallLogisticRegression ==
  \E c \in {1, 2} :
    \E r \in {logistic_regression(trainer, c)} :
       /\ last' = Completed("logistic_regression", [c |-> c], r)
       /\ trainer' = [trainer EXCEPT !.dfs = r.dfs]
       /\ UNCHANGED <<tester, defaults, held>>

CallDecisionTree ==
  \E max_depth \in {Some(3)} :
    \E r \in {decision_tree(trainer, max_depth)} :
       /\ last' = Completed("decision_tree", [max_depth |-> max_depth], r)
       /\ trainer' = [trainer EXCEPT !.dfs = r.dfs]
       /\ UNCHANGED <<tester, defaults, held>>

CallKNearest ==
  \E k \in {5} :
    \E r \in {k_nearest(trainer, k)} :
       /\ last' = Completed("k_nearest", [k |-> k], r)
       /\ trainer' = [trainer EXCEPT !.dfs = r.dfs]
       /\ UNCHANGED <<tester, defaults, held>>

CallLinearSvm ==
  \E c \in {1} :
    \E r \in {linear_svm(trainer, c)} :
       /\ last' = Completed("linear_svm", [c |-> c], r)
       /\ trainer' = [trainer EXCEPT !.dfs = r.dfs]
       /\ UNCHANGED <<tester, defaults, held>>

CallForest ==
  \E n_trees \in {10} :
    \E r \in {forest(trainer, n_trees)} :
       /\ last' = Completed("forest", [n_trees |-> n_trees], r)
       /\ trainer' = [trainer EXCEPT !.dfs = r.dfs]
       /\ UNCHANGED <<tester, defaults, held>>

CallBagging ==
  \E n_estimators \in {10} :
    \E r \in {bagging(trainer, n_estimators)} :
       /\ last' = Completed("bagging", [n_estimators |-> n_estimators], r)
       /\ trainer' = [trainer EXCEPT !.dfs = r.dfs]
       /\ UNCHANGED <<tester, defaults, held>>

CallBoosting ==
  \E n_estimators \in {10} :
    \E r \in {boosting(trainer, n_estimators)} :
       /\ last' = Completed("boosting", [n_estimators |-> n_estimators], r)
       /\ trainer' = [trainer EXCEPT !.dfs = r.dfs]
       /\ UNCHANGED <<tester, defaults, held>>

\* Choice 0 stands for leaving the argument out, so that the function's
\* default object is used.  The caller keeps the dictionary that is returned.
CallTrainAll ==
  \E pa \in 0..Len(ParameterInputs), ex \in 0..Len(ExcludeInputs) :
    \E parameters \in {IF pa = 0 THEN defaults.parameters
                        ELSE ParameterInputs[pa]},
       exclude \in {IF ex = 0 THEN defaults.exclude ELSE ExcludeInputs[ex]} :
      \E r \in {train_all(trainer, parameters, exclude)} :
        /\ last' = Completed("train_all",
                             [parameters |-> parameters,
                              exclude |-> exclude], r)
        /\ trainer' = [trainer EXCEPT !.dfs = r.dfs]
        /\ defaults' =
             [parameters |-> IF pa = 0 THEN r.parameters
                             ELSE defaults.parameters,
              exclude    |-> IF ex = 0 THEN r.exclude
                             ELSE defaults.exclude]
        /\ held' = IF r.raised = "none" THEN Some(r.value) ELSE held
        /\ UNCHANGED tester

CallTest ==
  \E models \in ModelTuples, threshold \in TestThresholds :
    \E r \in {test(tester, models, threshold)} :
       /\ last' = Completed("test",
                            [models |-> models, threshold |-> threshold], r)
       /\ tester' = [tester EXCEPT !.dfs = r.dfs]
       /\ UNCHANGED <<trainer, defaults, held>>

\* The dictionary is either the one a train_all call returned (choice 0) or
\* one the caller put together.
CallEvaluate ==
  \E c \in 0..Len(EvaluateDicts), thresholds \in ThresholdsInputs :
    \E model_dict \in IF c = 0 THEN {held[i] : i \in 1..Len(held)}
                      ELSE {EvaluateDicts[c]} :
      \E r \in {evaluate(tester, model_dict, thresholds)} :
        /\ last' = Completed("evaluate",
                             [model_dict |-> model_dict,
                              thresholds |-> thresholds,
                              trained |-> (c = 0)], r)
        /\ tester' = [tester EXCEPT !.dfs = r.dfs]
        /\ UNCHANGED <<trainer, defaults, held>>

CallEvaluateSplits ==
  \E c \in BOOLEAN, threshold \in ThresholdInputs :
    \E model_dict \in IF c THEN {held[i] : i \in 1..Len(held)}
                      ELSE EvaluateSplitsDicts :
      \E r \in {evaluate_splits(tester, model_dict, threshold)} :
         /\ last' = Completed("evaluate_splits",
                              [model_dict |-> model_dict,
                               threshold |-> threshold, trained |-> c], r)
         /\ tester' = [tester EXCEPT !.dfs = r.dfs]
         /\ UNCHANGED <<trainer, defaults, held>>

Next ==
  \/ CallDummy
  \/ CallLogisticRegression
  \/ CallDecisionTree
  \/ CallKNearest
  \/ CallLinearSvm
  \/ CallForest
  \/ CallBagging
  \/ CallBoosting
  \/ CallTrainAll
  \/ CallTest
  \/ CallEvaluate
  \/ CallEvaluateSplits

Spec == Init /\ [][Next]_vars

-----------------------------------------------------------------------------
(* vocabulary of the properties *)

TrainerOps == Range(methods) \cup {"train_all"}

TesterOps == {"test", "evaluate", "evaluate_splits"}

ScoringFns == {"decision_function", "predict_proba"}

ModelFns == {"fit", "predict"} \cup ScoringFns

\* Position of the label column in a dataset, 0 when it has none.
LabelPos(df, label_colname) ==
  IF \E p \in 1..Len(df.columns) : df.columns[p] = label_colname
  THEN CHOOSE p \in 1..Len(df.columns) : df.columns[p] = label_colname
  ELSE 0

LabelPresent(self) ==
  \A i \in 1..Len(self.dfs) : LabelPos(self.dfs[i], self.label_colname) # 0

\* The feature matrix and the label vector a dataset stands for.
IsFeaturesOf(X, df, label_colname) ==
  LET p == LabelPos(df, label_colname)
  IN /\ p # 0
     /\ Len(X) = Len(df.data)
     /\ \A r \in 1..Len(X) :
          /\ Len(X[r]) = Len(df.columns) - 1
          /\ \A j \in 1..Len(X[r]) :
               X[r][j] = df.data[r][IF j < p THEN j ELSE j + 1]

IsLabelsOf(y, df, label_colname) ==
  LET p == LabelPos(df, label_colname)
  IN /\ p # 0
     /\ Len(y) = Len(df.data)
     /\ \A r \in 1..Len(y) : y[r] = df.data[r][p]

CallsOf(fns) == {j \in 1..Len(last.calls) : last.calls[j].fn \in fns}

\* The object the last call was made on.
Self == IF last.op \in TrainerOps THEN trainer ELSE tester

NumModels(value) == IF value.cls = "list" THEN Len(value.items) ELSE 1

IsWrappedLinearSVM(model) ==
  /\ model.cls = "Pipeline"
  /\ \E i \in 1..Len(model.steps) :
       model.steps[i].name = "svm" /\ model.steps[i].est.cls = "LinearSVC"

\* The per-dataset results inside the value Tester.test returned.
TestResults ==
  IF last.value.cls = "ResultCollection" THEN last.value.stack
  ELSE <<last.value>>

-----------------------------------------------------------------------------
(* properties *)

\* C1: every training method, on a Trainer over n >= 0 datasets that all
\* have the label column, returns, and the number of models it returns is n.
C1_ModelCountEqualsDatasets ==
  (last.op \in Range(methods) /\ LabelPresent(trainer))
    => /\ last.raised = "none"
       /\ NumModels(last.value) = Len(trainer.dfs)

\* C2: Tester.test and Tester.evaluate_splits fail with the error of _test
\* and return nothing when the number m of supplied models differs from the
\* number n of datasets; when m = n the count check raises nothing.
C2_CountMismatchFails ==
  /\ last.op = "test" =>
       IF Len(last.args.models) # Len(tester.dfs)
       THEN last.raised = "Exception" /\ last.value.cls = "NoValue"
       ELSE last.raised # "Exception"
  /\ (/\ last.op = "evaluate_splits"
      /\ \A e \in 1..Len(last.args.model_dict) :
           last.args.model_dict[e].v.cls = "list")
       => LET md == last.args.model_dict
              Mismatch(e) == Len(md[e].v.items) # Len(tester.dfs)
          IN /\ (\E e \in 1..Len(md) : Mismatch(e))
                  => last.raised # "none" /\ last.value.cls = "NoValue"
             /\ (Len(md) > 0 /\ Mismatch(1)) => last.raised = "Exception"
             /\ (\A e \in 1..Len(md) : ~Mismatch(e))
                  => last.raised # "Exception"

C2_Witness ==
  /\ last.op = "evaluate_splits"
  /\ Len(last.args.model_dict) = 2
  /\ Len(last.args.model_dict[1].v.items) = Len(tester.dfs)
  /\ Len(last.args.model_dict[2].v.items) # Len(tester.dfs)
  /\ last.raised = "Exception"
  /\ Cardinality(CallsOf({"DataFrame"})) = Len(tester.dfs)
  /\ Len(tester.dfs) = 2

\* C3: every result table _test builds has exactly the columns actual,
\* score, predict and as many rows as the dataset it was built for, and a
\* test call that returns has built exactly one table per dataset.
C3_ResultTableShape ==
  /\ \A j \in CallsOf({"DataFrame"}) :
       LET t == last.calls[j].table
       IN /\ t.columns = <<"actual", "score", "predict">>
          /\ Len(t.data) = Len(tester.dfs[last.calls[j].split].data)
          /\ \A r \in 1..Len(t.data) : Len(t.data[r]) = 3
  /\ (last.op = "test" /\ last.raised = "none") =>
       /\ Len(TestResults) = Len(tester.dfs)
       /\ \A i \in 1..Len(tester.dfs) :
            /\ Cardinality({j \in CallsOf({"DataFrame"}) :
                              last.calls[j].split = i}) = 1
            /\ TestResults[i].df.columns = <<"actual", "score", "predict">>
            /\ Len(TestResults[i].df.data) = Len(tester.dfs[i].data)

C3_Witness ==
  /\ last.op = "test"
  /\ last.raised = "none"
  /\ Len(tester.dfs) = 2
  /\ Len(tester.dfs[1].data) # Len(tester.dfs[2].data)
  /\ Cardinality(CallsOf({"DataFrame"})) = 2

\* C4: the matrix X handed to fit, predict, predict_proba or
\* decision_function is the dataset without the column label_colname, the y
\* handed to fit is that column, and so is the actual column of a result
\* table.
C4_LabelExcludedFromFeatures ==
  /\ \A j \in CallsOf(ModelFns) :
       LET c == last.calls[j]
       IN /\ IsFeaturesOf(c.X, Self.dfs[c.split], Self.label_colname)
          /\ c.fn = "fit" =>
               IsLabelsOf(c.y, Self.dfs[c.split], Self.label_colname)
  /\ \A j \in CallsOf({"DataFrame"}) :
       LET c == last.calls[j]
       IN IsLabelsOf([r \in 1..Len(c.table.data) |-> c.table.data[r][1]],
                     tester.dfs[c.split], tester.label_colname)

C4_Witness ==
  /\ last.op = "logistic_regression"
  /\ last.raised = "none"
  /\ Len(trainer.dfs) = 2
  /\ LabelPos(trainer.dfs[1], trainer.label_colname) = 2
  /\ LabelPos(trainer.dfs[2], trainer.label_colname) = 1
  /\ Cardinality(CallsOf({"fit"})) = 2
\* C5: for every model passed to _test exactly one scoring function is
\* called: decision_function for the wrapped linear SVM, predict_proba for
\* every other model, other pipelines included; the score column is that
\* output.
C5_ScoreFunctionChoice ==
  (/\ last.op = "test"
   /\ Len(last.args.models) = Len(tester.dfs)
   /\ Len(tester.dfs) > 0
   /\ LabelPresent(tester))
    => /\ last.raised = "none"
       /\ \A i \in 1..Len(tester.dfs) :
            LET scoring == {j \in CallsOf(ScoringFns) :
                              last.calls[j].split = i}
                expected == IF IsWrappedLinearSVM(last.args.models[i])
                            THEN "decision_function" ELSE "predict_proba"
            IN /\ Cardinality(scoring) = 1
               /\ \A j \in scoring :
                    /\ last.calls[j].fn = expected
                    /\ last.calls[j].model = last.args.models[i]
               /\ \A r \in 1..Len(TestResults[i].df.data) :
                    /\ TestResults[i].df.data[r][2].fn = expected
                    /\ expected = "predict_proba" =>
                         TestResults[i].df.data[r][2].col = 1

\* C6: no operation, returning or raising, changes the datasets held by the
\* Trainer or the Tester, their order, label_colname or seed, nor the
\* default arguments of train_all.
C6_InputsUnchanged ==
  [][trainer' = trainer /\ tester' = tester /\ defaults' = defaults]_vars

C6_Witness ==
  /\ last.op = "train_all"
  /\ last.raised = "KeyError"
  /\ Cardinality(CallsOf({"fit"})) = 1
  /\ Len(trainer.dfs) = 2
  /\ last.args.parameters = defaults.parameters

\* C7: the keys of the dictionary train_all returns are the eight method
\* names without the names in exclude, and an excluded method is not called.
C7_ExcludeRespected ==
  (last.op = "train_all" /\ last.raised = "none")
    => /\ Range(Keys(last.value)) =
            Range(methods) \ Range(last.args.exclude)
       /\ \A j \in CallsOf({"method"}) :
            last.calls[j].name \notin Range(last.args.exclude)

\* C8: when a threshold is given to Tester.test the results it returns are
\* the thresholded ones, the same evaluate_splits produces for the models
\* and the threshold.
C8_TestAppliesThreshold ==
  (/\ last.op = "test"
   /\ last.args.threshold # None
   /\ last.raised = "none")
    => LET es == evaluate_splits(tester,
                   <<[k |-> "m", v |-> PyList(last.args.models)]>>,
                   last.args.threshold)
       IN /\ es.raised = "none"
          /\ es.value.joined[1].v.stack = TestResults
          /\ Cardinality(CallsOf({"with_threshold"})) = Len(tester.dfs)

\* C9: dataset order is kept: the i-th model a training method returns was
\* fitted on the i-th dataset and on nothing else, _test scores the i-th
\* model on the i-th dataset, and test returns the single result for one
\* dataset and the stack of the results in dataset order for several.
C9_OrderPreserved ==
  /\ (last.op \in Range(methods) /\ last.raised = "none") =>
       LET models == IF last.value.cls = "list" THEN last.value.items
                     ELSE <<last.value>>
       IN /\ Len(models) = Len(trainer.dfs)
          /\ Cardinality(CallsOf({"fit"})) = Len(trainer.dfs)
          /\ \A i \in 1..Len(models) :
               /\ models[i].fitted
               /\ IsFeaturesOf(models[i].fit_X, trainer.dfs[i],
                               trainer.label_colname)
               /\ IsLabelsOf(models[i].fit_y, trainer.dfs[i],
                             trainer.label_colname)
               /\ last.calls[i].split = i
  /\ (last.op = "test" /\ last.raised = "none") =>
       /\ last.value.cls = IF Len(tester.dfs) > 1 THEN "ResultCollection"
                           ELSE "PredictionResult"
       /\ Len(TestResults) = Len(tester.dfs)
       /\ \A i \in 1..Len(TestResults) :
            LET data == TestResults[i].df.data
                df == tester.dfs[i]
                p == LabelPos(df, tester.label_colname)
            IN /\ Len(data) = Len(df.data)
               /\ \A r \in 1..Len(data) :
                    /\ data[r][1] = df.data[r][p]
                    /\ data[r][2].model = last.args.models[i]
                    /\ data[r][3].model = last.args.models[i]
                    /\ IsFeaturesOf(<<data[r][2].x>>,
                                    [df EXCEPT !.data = <<df.data[r]>>],
                                    tester.label_colname)
                    /\ data[r][3].x = data[r][2].x

C9_Witness ==
  /\ last.op = "test"
  /\ last.raised = "none"
  /\ Len(tester.dfs) = 2
  /\ last.args.models[1] # last.args.models[2]
  /\ tester.dfs[1] # tester.dfs[2]
  /\ last.value.cls = "ResultCollection"

\* The last call evaluated the dictionary a train_all call returned, and the
\* Trainer and the Tester are over the same number n >= 1 of datasets.
EvaluatedTrained(op) ==
  /\ last.op = op
  /\ last.args.trained
  /\ Len(trainer.dfs) = Len(tester.dfs)
  /\ Len(tester.dfs) >= 1

\* C10 as stated: evaluate(train_all()) and evaluate_splits(train_all())
\* reach _test with exactly n models and without the count-mismatch error,
\* for every n >= 1.
C10_TrainedDictEvaluates ==
  (EvaluatedTrained("evaluate") \/ EvaluatedTrained("evaluate_splits"))
    => /\ last.raised # "Exception"
       /\ CallsOf({"_test"}) # {}
       /\ \A j \in CallsOf({"_test"}) :
            last.calls[j].nmodels = Len(tester.dfs)

\* C10 amended: evaluate hands each stored value to _test as one model, so
\* it passes the count check exactly when n = 1; evaluate_splits unpacks the
\* stored value, so it passes n models and the count check when n >= 2, and
\* for n = 1 fails with TypeError before _test is called.
C10_TrainedDictEvaluatesBySize ==
  /\ EvaluatedTrained("evaluate") =>
       /\ CallsOf({"_test"}) # {}
       /\ \A j \in CallsOf({"_test"}) : last.calls[j].nmodels = 1
       /\ (last.raised = "Exception") <=> (Len(tester.dfs) # 1)
  /\ EvaluatedTrained("evaluate_splits") =>
       IF Len(tester.dfs) = 1
       THEN last.raised = "TypeError" /\ CallsOf({"_test"}) = {}
       ELSE /\ last.raised # "Exception"
            /\ CallsOf({"_test"}) # {}
            /\ \A j \in CallsOf({"_test"}) :
                 last.calls[j].nmodels = Len(tester.dfs)

C10_Witness ==
  /\ EvaluatedTrained("evaluate_splits")
  /\ Len(tester.dfs) = 2
  /\ last.raised = "none"
  /\ Cardinality(CallsOf({"_test"})) = Len(methods)

====
